---- MODULE Spec2Model ----
\* The HTTP control plane of the ArangoDB starter (service/server.go):
\* the handlers of one starter, its peer registry, the persisted setup, the
\* running trigger, the engine process handles, the root context and the
\* signal handler.  One action per handled request; helloHandler and
\* goodbyeHandler run under s.mutex from their first to their last statement,
\* so each is one step in Spec; SpecConc runs helloHandler statement by
\* statement with the mutex as a variable.
EXTENDS Integers, Sequences, FiniteSets, TLC

VARIABLES
    state,            \* s.state: stateMaster or stateSlave
    AgencySize,       \* s.AgencySize (configuration, fixed per run)
    allowSameDataDir, \* s.allowSameDataDir (configuration, fixed per run)
    myPeers,          \* s.myPeers: [Peers, AgencySize]
    setup,            \* the setup file under s.DataDir (NoFile or its JSON)
    triggered,        \* startRunningTrigger has been called at least once
    lastOp,           \* the request handled last and the response written
    handled,          \* the number of requests handled so far
    servers,          \* s.servers: which of agentProc, coordinatorProc, dbserverProc are set
    logs,             \* the arangod.log files that exist, by path
    cancelCalls,      \* the number of calls of the root context's cancel
    goodbye,          \* what sendMasterGoodbye did in the shutdown handled last
    signalCount,      \* signalCount of handleSignal
    exitCode,         \* NotExited, or the code os.Exit was called with
    mutex,            \* s.mutex: Free or the thread that holds it
    threads,          \* the helloHandler calls in flight, statement by statement
    order             \* the requests in the order their handlers took the mutex

procVars == <<servers, logs>>
shutVars == <<cancelCalls, goodbye, signalCount, exitCode>>
concVars == <<mutex, threads, order>>

vars == <<state, AgencySize, allowSameDataDir, myPeers, setup, triggered, lastOp, handled,
          procVars, shutVars, concVars>>

----------------------------------------------------------------------------
\* Bounds

\* number of starters, besides the leader, that send requests
NumSlaves == 2

\* number of requests the starter handles in a run
MaxRequests == 4

\* number of times a follower sends its hello in a run of the bootstrap
MaxRetries == 2

\* Program constants and configuration

stateMaster == "stateMaster"
stateSlave == "stateSlave"

MasterPort == 4000
announcePort == MasterPort
isNetHost == FALSE
portOffsetIncrement == 5
portOffsetAgent == 1
portOffsetCoordinator == 2
portOffsetDBServer == 3

MasterID == "a"
SlaveNames == <<"b", "c", "d", "e">>
SlaveIDs == {SlaveNames[i] : i \in 1..NumSlaves}

\* s.ID and s.DataDir of the starter that handles the requests
ID == IF state = stateSlave THEN SlaveNames[1] ELSE MasterID
DataDir == "d1"

AgencySizes == {1, 3}

\* Inputs: what a request can carry.  A slave names its address explicitly
\* ("h1", the host its requests come from) or leaves it to be derived ("")
OwnAddrs == {<<"h0", MasterPort>>}               \* r.Host, host:port
RemoteAddrs == {<<"h1", 50000>>}                 \* r.RemoteAddr, host:port
SlaveAddresses == {"", "h1"}
SlavePorts == {4001}
DataDirs == {"d1", "d2"}

Roles == {"agent", "coordinator", "dbserver"}
NotExited == <<>>
Free == "free"
Threads == {"t1", "t2"}

NoFile == <<"NoFile">>
NoLocation == <<>>
BadBody == [bad |-> TRUE]
NoBody == <<>>

HelloBodies ==
    [SlaveID : SlaveIDs \cup {MasterID, ""}, SlaveAddress : SlaveAddresses,
     SlavePort : SlavePorts, DataDir : DataDirs] \cup {BadBody}
GoodbyeBodies == [SlaveID : SlaveIDs \cup {MasterID, ""}] \cup {BadBody}

\* a GET carries no body: reading it as JSON fails, and no handler reads it
HelloRequests ==
    [Method : {"POST"}, Host : OwnAddrs, RemoteAddr : RemoteAddrs, Body : HelloBodies]
      \cup [Method : {"GET"}, Host : OwnAddrs, RemoteAddr : RemoteAddrs, Body : {BadBody}]
GoodbyeRequests ==
    [Method : {"POST"}, Host : OwnAddrs, RemoteAddr : RemoteAddrs, Body : GoodbyeBodies]
      \cup [Method : {"GET"}, Host : OwnAddrs, RemoteAddr : RemoteAddrs, Body : {BadBody}]

\* the requests that move this starter's own entry, for the specifications of
\* the handlers that read it
OwnHelloRequests ==
    {req \in HelloRequests :
        /\ req.Method = "POST" /\ req.Body # BadBody
        /\ req.Body.SlaveID \in {MasterID, SlaveNames[1]}
        /\ req.Body.SlaveAddress = "" /\ req.Body.DataDir = "d2"}
OwnGoodbyeRequests ==
    {req \in GoodbyeRequests :
        /\ req.Method = "POST" /\ req.Body # BadBody
        /\ req.Body.SlaveID \in {MasterID, SlaveNames[1]}}

\* the hellos that arrive at the same time: two slaves and a GET
ConcHelloRequests ==
    {req \in HelloRequests :
        \/ req.Method = "GET"
        \/ /\ req.Body # BadBody
           /\ req.Body.SlaveID \in {SlaveNames[1], SlaveNames[2]}
           /\ req.Body.SlaveAddress = "" /\ req.Body.DataDir = "d2"}

\* the followers of a bootstrap: as many slaves as the agency needs besides the
\* leader, each sending one valid hello again and again; their ids differ and
\* so do their (address, directory) pairs
Followers == {SlaveNames[i] : i \in 1..(AgencySize - 1)}
FollowerRequest(f) ==
    [Method |-> "POST", Host |-> <<"h0", MasterPort>>, RemoteAddr |-> <<"h1", 50000>>,
     Body |-> [SlaveID |-> f,
               SlaveAddress |-> IF f = SlaveNames[1] THEN "" ELSE "h1",
               SlavePort |-> 4001,
               DataDir |-> IF f = SlaveNames[1] THEN "d1" ELSE "d2"]]
GetHello ==
    [Method |-> "GET", Host |-> <<"h0", MasterPort>>, RemoteAddr |-> <<"h1", 50000>>,
     Body |-> BadBody]

\* /process reads nothing of the request; /logs/{role} only its path
ProcessRequests == [Method : {"GET"}]
LogsRequests == [Method : {"GET"}, role : Roles]

\* /shutdown reads the method and the form value "mode"
ShutdownRequests == [Method : {"POST", "GET"}, mode : {"", "goodbye"}]

----------------------------------------------------------------------------
\* Helpers of the registry and of the handlers

\* findHost: the host part of a host:port address
findHost(addr) == addr[1]

\* peers.PeerByID: is there a peer with this id
IDFound(peers, id) == \E i \in 1..Len(peers) : peers[i].ID = id

\* peers.PeerByID: the first peer with this id
PeerByID(peers, id) ==
    peers[CHOOSE i \in 1..Len(peers) :
            /\ peers[i].ID = id
            /\ \A j \in 1..(i - 1) : peers[j].ID # id]

\* peers.GetFreePortOffset: the smallest multiple of the stride not in use
GetFreePortOffset(peers) ==
    LET used == {peers[i].PortOffset : i \in 1..Len(peers)}
    IN  portOffsetIncrement *
          (CHOOSE n \in 0..Len(peers) :
             /\ portOffsetIncrement * n \notin used
             /\ \A m \in 0..(n - 1) : portOffsetIncrement * m \in used)

\* peers.RemovePeerByID: the registry without the peers of this id
RemovePeerByID(peers, id) == SelectSeq(peers, LAMBDA p : p.ID # id)

\* json.Marshal of the registry: an array of field lists and the agency size
Marshal(reg) ==
    <<[i \in 1..Len(reg.Peers) |->
         <<reg.Peers[i].ID, reg.Peers[i].Address, reg.Peers[i].Port,
           reg.Peers[i].PortOffset, reg.Peers[i].DataDir, reg.Peers[i].HasAgent>>],
      reg.AgencySize>>

\* json.Unmarshal of a stored registry; a missing file is the empty registry
Unmarshal(data) ==
    IF data = NoFile
    THEN [Peers |-> <<>>, AgencySize |-> 0]
    ELSE [Peers |-> [i \in 1..Len(data[1]) |->
                       [ID |-> data[1][i][1], Address |-> data[1][i][2],
                        Port |-> data[1][i][3], PortOffset |-> data[1][i][4],
                        DataDir |-> data[1][i][5], HasAgent |-> data[1][i][6]]],
          AgencySize |-> data[2]]

\* getHTTPServerPort
getHTTPServerPort(peers) ==
    LET known == announcePort = MasterPort /\ Len(peers) > 0
        err == known /\ ~IDFound(peers, ID)
        containerPort == IF known /\ ~err
                         THEN MasterPort + PeerByID(peers, ID).PortOffset
                         ELSE MasterPort
    IN  IF err
        THEN [containerPort |-> 0, hostPort |-> 0, err |-> TRUE]
        ELSE [containerPort |-> containerPort,
              hostPort |-> IF isNetHost THEN containerPort ELSE announcePort,
              err |-> FALSE]

\* helloHandler, "Learn my own address": the registry after the self-install
SelfInstall(reg, host) ==
    IF Len(reg.Peers) = 0
    THEN [Peers |-> << [ID |-> ID, Address |-> findHost(host),
                        Port |-> getHTTPServerPort(reg.Peers).hostPort,
                        PortOffset |-> 0, DataDir |-> DataDir, HasAgent |-> TRUE] >>,
          AgencySize |-> AgencySize]
    ELSE reg

\* helloHandler: the address of the slave
SlaveAddr(req) ==
    IF req.Body.SlaveAddress = "" THEN findHost(req.RemoteAddr) ELSE req.Body.SlaveAddress

\* helloHandler, "Check datadir": some peer of another id has this address and directory
SameDataDir(peers, req) ==
    \E i \in 1..Len(peers) :
       /\ peers[i].Address = SlaveAddr(req)
       /\ peers[i].DataDir = req.Body.DataDir
       /\ peers[i].ID # req.Body.SlaveID

\* NewPeer with the offset taken from the number of peers
NewPeerCountsPeers(peers, req) ==
    [ID |-> req.Body.SlaveID, Address |-> SlaveAddr(req), Port |-> req.Body.SlavePort,
     PortOffset |-> portOffsetIncrement * Len(peers), DataDir |-> req.Body.DataDir,
     HasAgent |-> Len(peers) < AgencySize]

\* helloHandler, "ID not yet found, add it": the new peer
NewPeer(peers, req) ==
    [ID |-> req.Body.SlaveID, Address |-> SlaveAddr(req), Port |-> req.Body.SlavePort,
     PortOffset |-> GetFreePortOffset(peers), DataDir |-> req.Body.DataDir,
     HasAgent |-> Len(peers) < AgencySize]

\* UpdatePeer adding the peer once more
UpdatePeerAppends(peers, req) == Append(peers, NewPeer(peers, req))

\* UpdatePeer giving the peer a fresh offset
UpdatePeerRenumbers(peers, req) ==
    [i \in 1..Len(peers) |->
       IF peers[i].ID = req.Body.SlaveID
       THEN [peers[i] EXCEPT !.Port = req.Body.SlavePort,
                             !.Address = req.Body.SlaveAddress,
                             !.DataDir = req.Body.DataDir,
                             !.PortOffset = GetFreePortOffset(peers)]
       ELSE peers[i]]

\* UpdatePeer taking the peer out and adding it at the end
UpdatePeerReappends(peers, req) ==
    Append(RemovePeerByID(peers, req.Body.SlaveID),
           [PeerByID(peers, req.Body.SlaveID) EXCEPT !.Port = req.Body.SlavePort,
                                                     !.Address = req.Body.SlaveAddress,
                                                     !.DataDir = req.Body.DataDir])

\* helloHandler, "ID already found, update peer data"
UpdatePeer(peers, req) ==
    [i \in 1..Len(peers) |->
       IF peers[i].ID = req.Body.SlaveID
       THEN [peers[i] EXCEPT !.Port = req.Body.SlavePort,
                             !.Address = req.Body.SlaveAddress,
                             !.DataDir = req.Body.DataDir]
       ELSE peers[i]]

\* helloHandler: the Location a slave redirects to
Location(master) == <<"http://", master.Address, ":", master.Port, "/hello">>

\* The outcome of a handler: the registry it leaves, the response it writes,
\* whether it called startRunningTrigger and whether it called saveSetup
Outcome(reg, status, location, body, signalled, saved) ==
    [reg |-> reg, status |-> status, location |-> location, body |-> body,
     signalled |-> signalled, saved |-> saved]

\* helloSlave redirecting to the peer that joined last
helloSlaveLastPeer(reg) ==
    IF Len(reg.Peers) > 0
    THEN Outcome(reg, 307, Location(reg.Peers[Len(reg.Peers)]), NoBody, FALSE, FALSE)
    ELSE Outcome(reg, 400, NoLocation, NoBody, FALSE, FALSE)

\* helloHandler on a slave
helloSlave(reg) ==
    IF Len(reg.Peers) > 0
    THEN Outcome(reg, 307, Location(reg.Peers[1]), NoBody, FALSE, FALSE)
    ELSE Outcome(reg, 400, NoLocation, NoBody, FALSE, FALSE)

\* helloPost signalling one append after the agency is complete
helloPostSignalsLate(reg, req) ==
    IF req.Body = BadBody
    THEN Outcome(reg, 400, NoLocation, NoBody, FALSE, FALSE)
    ELSE IF req.Body.SlaveID = ""
    THEN Outcome(reg, 400, NoLocation, NoBody, FALSE, FALSE)
    ELSE IF ~allowSameDataDir /\ SameDataDir(reg.Peers, req)
    THEN Outcome(reg, 400, NoLocation, NoBody, FALSE, FALSE)
    ELSE IF IDFound(reg.Peers, req.Body.SlaveID)
    THEN LET upd == [reg EXCEPT !.Peers = UpdatePeer(reg.Peers, req)]
         IN  Outcome(upd, 200, NoLocation, Marshal(upd), FALSE, FALSE)
    ELSE LET app == [reg EXCEPT !.Peers = Append(reg.Peers, NewPeer(reg.Peers, req))]
         IN  Outcome(app, 200, NoLocation, Marshal(app),
                     Len(app.Peers) = AgencySize + 1, FALSE)

\* helloPost calling the running trigger whenever the registry is at or above
\* the agency size after the append
helloPostSignalsAbove(reg, req) ==
    IF req.Body = BadBody
    THEN Outcome(reg, 400, NoLocation, NoBody, FALSE, FALSE)
    ELSE IF req.Body.SlaveID = ""
    THEN Outcome(reg, 400, NoLocation, NoBody, FALSE, FALSE)
    ELSE IF ~allowSameDataDir /\ SameDataDir(reg.Peers, req)
    THEN Outcome(reg, 400, NoLocation, NoBody, FALSE, FALSE)
    ELSE IF IDFound(reg.Peers, req.Body.SlaveID)
    THEN LET upd == [reg EXCEPT !.Peers = UpdatePeer(reg.Peers, req)]
         IN  Outcome(upd, 200, NoLocation, Marshal(upd), FALSE, FALSE)
    ELSE LET app == [reg EXCEPT !.Peers = Append(reg.Peers, NewPeer(reg.Peers, req))]
         IN  Outcome(app, 200, NoLocation, Marshal(app),
                     Len(app.Peers) >= AgencySize, FALSE)

\* helloHandler on the leader, the POST part, reg being the registry after the self-install
helloPost(reg, req) ==
    IF req.Body = BadBody
    THEN Outcome(reg, 400, NoLocation, NoBody, FALSE, FALSE)
    ELSE IF req.Body.SlaveID = ""
    THEN Outcome(reg, 400, NoLocation, NoBody, FALSE, FALSE)
    ELSE IF ~allowSameDataDir /\ SameDataDir(reg.Peers, req)
    THEN Outcome(reg, 400, NoLocation, NoBody, FALSE, FALSE)
    ELSE IF IDFound(reg.Peers, req.Body.SlaveID)
    THEN LET upd == [reg EXCEPT !.Peers = UpdatePeer(reg.Peers, req)]
         IN  Outcome(upd, 200, NoLocation, Marshal(upd), FALSE, FALSE)
    ELSE LET app == [reg EXCEPT !.Peers = Append(reg.Peers, NewPeer(reg.Peers, req))]
         IN  Outcome(app, 200, NoLocation, Marshal(app),
                     Len(app.Peers) = AgencySize, FALSE)

\* helloHandler, the whole handler
helloOutcome(reg, req) ==
    IF state = stateSlave
    THEN helloSlave(reg)
    ELSE LET inst == SelfInstall(reg, req.Host)
         IN  IF req.Method = "POST"
             THEN helloPost(inst, req)
             ELSE Outcome(inst, 200, NoLocation, Marshal(inst), FALSE, FALSE)

\* goodbyeOutcome saving the setup before it looks at what was removed
goodbyeOutcomeSavesFirst(reg, req) ==
    IF req.Method # "POST"
    THEN Outcome(reg, 405, NoLocation, NoBody, FALSE, FALSE)
    ELSE IF req.Body = BadBody
    THEN Outcome(reg, 400, NoLocation, NoBody, FALSE, FALSE)
    ELSE IF req.Body.SlaveID = ""
    THEN Outcome(reg, 400, NoLocation, NoBody, FALSE, FALSE)
    ELSE IF ~IDFound(reg.Peers, req.Body.SlaveID)
    THEN Outcome([reg EXCEPT !.Peers = RemovePeerByID(reg.Peers, req.Body.SlaveID)],
                 404, NoLocation, NoBody, FALSE, TRUE)
    ELSE Outcome([reg EXCEPT !.Peers = RemovePeerByID(reg.Peers, req.Body.SlaveID)],
                 200, NoLocation, <<"BYE">>, FALSE, TRUE)

\* goodbyeHandler, the whole handler
goodbyeOutcome(reg, req) ==
    IF req.Method # "POST"
    THEN Outcome(reg, 405, NoLocation, NoBody, FALSE, FALSE)
    ELSE IF req.Body = BadBody
    THEN Outcome(reg, 400, NoLocation, NoBody, FALSE, FALSE)
    ELSE IF req.Body.SlaveID = ""
    THEN Outcome(reg, 400, NoLocation, NoBody, FALSE, FALSE)
    ELSE IF ~IDFound(reg.Peers, req.Body.SlaveID)
    THEN Outcome([reg EXCEPT !.Peers = RemovePeerByID(reg.Peers, req.Body.SlaveID)],
                 404, NoLocation, NoBody, FALSE, FALSE)
    ELSE Outcome([reg EXCEPT !.Peers = RemovePeerByID(reg.Peers, req.Body.SlaveID)],
                 200, NoLocation, <<"BYE">>, FALSE, TRUE)

\* saveSetup: what the setup file holds after the save (the write is taken to
\* succeed; goodbyeHandler only logs a failure)
saveSetup(reg) == Marshal(reg)

----------------------------------------------------------------------------
\* The state machine

\* What is kept of the request handled last: the handler, the request, whether
\* it repeats the request handled before it, whether the handler changed the
\* registry, the response (status, Location, body) and the calls the handler made
Op(kind, req, out) ==
    [kind |-> kind, req |-> req, repeated |-> (lastOp.kind = kind /\ lastOp.req = req),
     mutated |-> (out.reg # myPeers),
     status |-> out.status, location |-> out.location, body |-> out.body,
     signalled |-> out.signalled, saved |-> out.saved]

NoOp == [kind |-> "none", req |-> BadBody, repeated |-> FALSE, mutated |-> FALSE,
         status |-> 0,
         location |-> NoLocation, body |-> NoBody, signalled |-> FALSE, saved |-> FALSE]

EmptyRegistry == [Peers |-> <<>>, AgencySize |-> 0]

\* a thread that runs no handler
IdleThread == [pc |-> "idle", req |-> BadBody, newPeer |-> BadBody,
               mutated |-> FALSE, signalled |-> FALSE]

\* The registries a slave holds when requests reach it: none yet, or the
\* leader's answer to its hello
SlaveRegistries(n) ==
    LET master == [ID |-> MasterID, Address |-> "h0", Port |-> MasterPort,
                   PortOffset |-> 0, DataDir |-> DataDir, HasAgent |-> TRUE]
        self == [ID |-> SlaveNames[1], Address |-> "h1", Port |-> 4001,
                 PortOffset |-> portOffsetIncrement, DataDir |-> "d2",
                 HasAgent |-> 1 < n]
    IN  {EmptyRegistry, [Peers |-> <<master, self>>, AgencySize |-> n]}

Init ==
    /\ state \in {stateMaster, stateSlave}
    /\ AgencySize \in AgencySizes
    /\ allowSameDataDir \in BOOLEAN
    /\ myPeers \in (IF state = stateMaster THEN {EmptyRegistry}
                    ELSE SlaveRegistries(AgencySize))
    /\ setup = NoFile
    /\ triggered = FALSE
    /\ lastOp = NoOp
    /\ handled = 0
    /\ servers = [r \in Roles |-> FALSE]
    /\ logs = {}
    /\ cancelCalls = 0
    /\ goodbye = "none"
    /\ signalCount = 0
    /\ exitCode = NotExited
    /\ mutex = Free
    /\ threads = [t \in Threads |-> IdleThread]
    /\ order = <<>>

helloHandler(req) ==
    LET out == helloOutcome(myPeers, req)
    IN  /\ handled < MaxRequests
        /\ handled' = handled + 1
        /\ myPeers' = out.reg
        /\ triggered' = (triggered \/ out.signalled)
        /\ lastOp' = Op("hello", req, out)
        /\ UNCHANGED <<state, AgencySize, allowSameDataDir, setup>>
        /\ UNCHANGED <<procVars, shutVars, concVars>>

goodbyeHandler(req) ==
    LET out == goodbyeOutcome(myPeers, req)
    IN  /\ handled < MaxRequests
        /\ handled' = handled + 1
        /\ myPeers' = out.reg
        /\ setup' = IF out.saved THEN saveSetup(out.reg) ELSE setup
        /\ lastOp' = Op("goodbye", req, out)
        /\ UNCHANGED <<state, AgencySize, allowSameDataDir, triggered>>
        /\ UNCHANGED <<procVars, shutVars, concVars>>

Next ==
    \/ \E req \in HelloRequests : helloHandler(req)
    \/ \E req \in GoodbyeRequests : goodbyeHandler(req)

Spec == Init /\ [][Next]_vars

----------------------------------------------------------------------------
\* This starter's engines: /process and /logs/{role}

\* the fixed port offset of a role
roleOffset(role) ==
    CASE role = "agent" -> portOffsetAgent
      [] role = "coordinator" -> portOffsetCoordinator
      [] role = "dbserver" -> portOffsetDBServer

\* processListHandler that expects an agent on every peer
processListExpectsAgent(reg, srv) ==
    LET found == IDFound(reg.Peers, ID)
        myPeer == PeerByID(reg.Peers, ID)
        expectedServers == 3
        entry(role) ==
            IF srv[role]
            THEN <<[Type |-> role, IP |-> myPeer.Address,
                    Port |-> MasterPort + myPeer.PortOffset + roleOffset(role)]>>
            ELSE <<>>
        list == IF found THEN entry("agent") \o entry("coordinator") \o entry("dbserver")
                ELSE <<>>
    IN  [ServersStarted |-> (Len(list) = expectedServers), Servers |-> list]

\* processListHandler: the ProcessListResponse for the registry and the handles
processList(reg, srv) ==
    LET found == IDFound(reg.Peers, ID)
        myPeer == PeerByID(reg.Peers, ID)
        expectedServers == IF found /\ myPeer.HasAgent THEN 3 ELSE 2
        entry(role) ==
            IF srv[role]
            THEN <<[Type |-> role, IP |-> myPeer.Address,
                    Port |-> MasterPort + myPeer.PortOffset + roleOffset(role)]>>
            ELSE <<>>
        list == IF found THEN entry("agent") \o entry("coordinator") \o entry("dbserver")
                ELSE <<>>
    IN  [ServersStarted |-> (Len(list) = expectedServers), Servers |-> list]

processListHandler(req) ==
    /\ handled < MaxRequests
    /\ handled' = handled + 1
    /\ lastOp' = Op("process", req,
                    Outcome(myPeers, 200, NoLocation, processList(myPeers, servers),
                            FALSE, FALSE))
    /\ UNCHANGED <<state, AgencySize, allowSameDataDir, myPeers, setup, triggered>>
    /\ UNCHANGED <<procVars, shutVars, concVars>>

\* needsAgent: this starter's own entry exists and has an agent
needsAgent(reg) == IDFound(reg.Peers, ID) /\ PeerByID(reg.Peers, ID).HasAgent

\* logsHandler: the path of the log file
logPath(myPeer, mode, serverPortOffset) ==
    <<DataDir, mode, MasterPort + myPeer.PortOffset + serverPortOffset, "arangod.log">>

\* logsHandler that answers 404 for a log file that is not there
logsOutcomeNotFound(reg, files, mode, serverPortOffset, openErr) ==
    LET found == IDFound(reg.Peers, ID)
        path == logPath(PeerByID(reg.Peers, ID), mode, serverPortOffset)
    IN  IF ~found THEN [status |-> 412, body |-> NoBody]
        ELSE IF path \notin files THEN [status |-> 404, body |-> NoBody]
        ELSE IF openErr THEN [status |-> 500, body |-> <<"error">>]
        ELSE [status |-> 200, body |-> <<"log", path>>]

\* logsHandler: the response; files are the log files that exist, openErr is
\* whether opening an existing file fails
logsOutcome(reg, files, mode, serverPortOffset, openErr) ==
    LET found == IDFound(reg.Peers, ID)
        path == logPath(PeerByID(reg.Peers, ID), mode, serverPortOffset)
    IN  IF ~found THEN [status |-> 412, body |-> NoBody]
        ELSE IF path \notin files THEN [status |-> 200, body |-> NoBody]
        ELSE IF openErr THEN [status |-> 500, body |-> <<"error">>]
        ELSE [status |-> 200, body |-> <<"log", path>>]

\* agentLogsHandler, dbserverLogsHandler, coordinatorLogsHandler
roleLogsOutcome(reg, files, role, openErr) ==
    IF role = "agent" /\ ~needsAgent(reg)
    THEN [status |-> 404, body |-> NoBody]
    ELSE logsOutcome(reg, files, role, roleOffset(role), openErr)

logsHandler(req, openErr) ==
    LET out == roleLogsOutcome(myPeers, logs, req.role, openErr)
    IN  /\ handled < MaxRequests
        /\ handled' = handled + 1
        /\ lastOp' = Op("logs", req,
                        Outcome(myPeers, out.status, NoLocation, out.body, FALSE, FALSE))
        /\ UNCHANGED <<state, AgencySize, allowSameDataDir, myPeers, setup, triggered>>
        /\ UNCHANGED <<procVars, shutVars, concVars>>

\* a supervisor sets or clears the handle of its engine
startServer(role) ==
    /\ ~servers[role]
    /\ servers' = [servers EXCEPT ![role] = TRUE]
    /\ UNCHANGED <<state, AgencySize, allowSameDataDir, myPeers, setup, triggered,
                   lastOp, handled, logs, shutVars, concVars>>

stopServer(role) ==
    /\ servers[role]
    /\ servers' = [servers EXCEPT ![role] = FALSE]
    /\ UNCHANGED <<state, AgencySize, allowSameDataDir, myPeers, setup, triggered,
                   lastOp, handled, logs, shutVars, concVars>>

\* a running engine creates its log file
writeLog(role) ==
    /\ servers[role]
    /\ IDFound(myPeers.Peers, ID)
    /\ logPath(PeerByID(myPeers.Peers, ID), role, roleOffset(role)) \notin logs
    /\ logs' = logs \cup {logPath(PeerByID(myPeers.Peers, ID), role, roleOffset(role))}
    /\ UNCHANGED <<state, AgencySize, allowSameDataDir, myPeers, setup, triggered,
                   lastOp, handled, servers, shutVars, concVars>>

NextProcess ==
    \/ \E req \in OwnHelloRequests : helloHandler(req)
    \/ \E req \in OwnGoodbyeRequests : goodbyeHandler(req)
    \/ \E role \in Roles : startServer(role)
    \/ \E role \in Roles : stopServer(role)
    \/ \E req \in ProcessRequests : processListHandler(req)

SpecProcess == Init /\ [][NextProcess]_vars

NextLogs ==
    \/ \E req \in OwnHelloRequests : helloHandler(req)
    \/ \E req \in OwnGoodbyeRequests : goodbyeHandler(req)
    \/ \E role \in Roles : startServer(role)
    \/ \E role \in Roles : writeLog(role)
    \/ \E req \in LogsRequests, openErr \in BOOLEAN : logsHandler(req, openErr)

SpecLogs == Init /\ [][NextLogs]_vars

----------------------------------------------------------------------------
\* helloHandler statement by statement, one goroutine per request

\* s.mutex.Lock() that returns without waiting
MutexNotWaitedFor == TRUE

\* s.mutex.Lock() can return
MutexFree == mutex = Free

\* the requests that arrived and are not yet answered
InFlight == {t \in Threads : threads[t].pc # "idle"}

\* the handler returns: the response is written and the deferred Unlock runs
Return(t, out) ==
    /\ handled' = handled + 1
    /\ lastOp' = [Op("hello", threads[t].req, out)
                    EXCEPT !.mutated = threads[t].mutated,
                           !.signalled = threads[t].signalled]
    /\ mutex' = Free
    /\ threads' = [threads EXCEPT ![t] = IdleThread]

WritePort(peers, req) ==
    [i \in 1..Len(peers) |->
       IF peers[i].ID = req.Body.SlaveID
       THEN [peers[i] EXCEPT !.Port = req.Body.SlavePort] ELSE peers[i]]

WriteAddress(peers, req) ==
    [i \in 1..Len(peers) |->
       IF peers[i].ID = req.Body.SlaveID
       THEN [peers[i] EXCEPT !.Address = req.Body.SlaveAddress] ELSE peers[i]]

WriteDataDir(peers, req) ==
    [i \in 1..Len(peers) |->
       IF peers[i].ID = req.Body.SlaveID
       THEN [peers[i] EXCEPT !.DataDir = req.Body.DataDir] ELSE peers[i]]

\* a request reaches the server and its goroutine calls helloHandler
helloArrive(t, req) ==
    /\ threads[t].pc = "idle"
    /\ handled + Cardinality(InFlight) < MaxRequests
    /\ threads' = [threads EXCEPT ![t] = [IdleThread EXCEPT !.pc = "lock", !.req = req]]
    /\ UNCHANGED <<state, AgencySize, allowSameDataDir, myPeers, setup, triggered,
                   lastOp, handled, procVars, shutVars, mutex, order>>

\* s.mutex.Lock()
helloLock(t) ==
    /\ threads[t].pc = "lock"
    /\ MutexFree
    /\ mutex' = t
    /\ order' = Append(order, threads[t].req)
    /\ threads' = [threads EXCEPT ![t].pc = "install"]
    /\ UNCHANGED <<state, AgencySize, allowSameDataDir, myPeers, setup, triggered,
                   lastOp, handled, procVars, shutVars>>

\* the slave's answer, or "Learn my own address"
helloInstall(t) ==
    /\ threads[t].pc = "install"
    /\ IF state = stateSlave
       THEN /\ Return(t, helloSlave(myPeers))
            /\ UNCHANGED myPeers
       ELSE /\ myPeers' = SelfInstall(myPeers, threads[t].req.Host)
            /\ threads' = [threads EXCEPT ![t].pc = "check",
                                          ![t].mutated = (myPeers' # myPeers)]
            /\ UNCHANGED <<lastOp, handled, mutex>>
    /\ UNCHANGED <<state, AgencySize, allowSameDataDir, setup, triggered,
                   procVars, shutVars, order>>

\* reading and checking the request, up to the new peer of "add it"
helloCheck(t) ==
    LET req == threads[t].req
        reject == Outcome(myPeers, 400, NoLocation, NoBody, FALSE, FALSE)
    IN  /\ threads[t].pc = "check"
        /\ IF req.Method # "POST"
           THEN /\ threads' = [threads EXCEPT ![t].pc = "respond"]
                /\ UNCHANGED <<lastOp, handled, mutex>>
           ELSE IF \/ req.Body = BadBody
                   \/ req.Body.SlaveID = ""
                   \/ ~allowSameDataDir /\ SameDataDir(myPeers.Peers, req)
           THEN Return(t, reject)
           ELSE IF IDFound(myPeers.Peers, req.Body.SlaveID)
           THEN /\ threads' = [threads EXCEPT ![t].pc = "setPort"]
                /\ UNCHANGED <<lastOp, handled, mutex>>
           ELSE /\ threads' = [threads EXCEPT ![t].pc = "append",
                                              ![t].newPeer = NewPeer(myPeers.Peers, req)]
                /\ UNCHANGED <<lastOp, handled, mutex>>
        /\ UNCHANGED <<state, AgencySize, allowSameDataDir, myPeers, setup, triggered,
                       procVars, shutVars, order>>

\* "update peer data", one assignment after the other
helloUpdate(t) ==
    LET req == threads[t].req
        pc == threads[t].pc
        peers == CASE pc = "setPort" -> WritePort(myPeers.Peers, req)
                   [] pc = "setAddress" -> WriteAddress(myPeers.Peers, req)
                   [] pc = "setDataDir" -> WriteDataDir(myPeers.Peers, req)
        next == CASE pc = "setPort" -> "setAddress"
                  [] pc = "setAddress" -> "setDataDir"
                  [] pc = "setDataDir" -> "respond"
    IN  /\ pc \in {"setPort", "setAddress", "setDataDir"}
        /\ myPeers' = [myPeers EXCEPT !.Peers = peers]
        /\ threads' = [threads EXCEPT ![t].pc = next,
                                      ![t].mutated = (@ \/ myPeers' # myPeers)]
        /\ UNCHANGED <<state, AgencySize, allowSameDataDir, setup, triggered,
                       lastOp, handled, procVars, shutVars, mutex, order>>

\* the append and the running trigger
helloAppend(t) ==
    LET peers == Append(myPeers.Peers, threads[t].newPeer)
        signal == Len(peers) = AgencySize
    IN  /\ threads[t].pc = "append"
        /\ myPeers' = [myPeers EXCEPT !.Peers = peers]
        /\ triggered' = (triggered \/ signal)
        /\ threads' = [threads EXCEPT ![t].pc = "respond", ![t].mutated = TRUE,
                                      ![t].signalled = signal]
        /\ UNCHANGED <<state, AgencySize, allowSameDataDir, setup,
                       lastOp, handled, procVars, shutVars, mutex, order>>

\* the registry is written to the response
helloRespond(t) ==
    /\ threads[t].pc = "respond"
    /\ Return(t, Outcome(myPeers, 200, NoLocation, Marshal(myPeers), FALSE, FALSE))
    /\ UNCHANGED <<state, AgencySize, allowSameDataDir, myPeers, setup, triggered,
                   procVars, shutVars, order>>

NextConc ==
    \/ \E t \in Threads, req \in ConcHelloRequests : helloArrive(t, req)
    \/ \E t \in Threads : helloLock(t)
    \/ \E t \in Threads : helloInstall(t)
    \/ \E t \in Threads : helloCheck(t)
    \/ \E t \in Threads : helloUpdate(t)
    \/ \E t \in Threads : helloAppend(t)
    \/ \E t \in Threads : helloRespond(t)
    \/ \E req \in ProcessRequests : processListHandler(req)

SpecConc == Init /\ [][NextConc]_vars

----------------------------------------------------------------------------
\* The bootstrap: followers that keep sending their hello, and no goodbye

\* how often a request has taken the mutex
Count(seq, req) == Cardinality({i \in 1..Len(seq) : seq[i] = req})

\* helloHandler for a hello that is sent at most MaxRetries times
helloRetried(req) ==
    LET out == helloOutcome(myPeers, req)
    IN  /\ Count(order, req) < MaxRetries
        /\ order' = Append(order, req)
        /\ handled' = handled + 1
        /\ myPeers' = out.reg
        /\ triggered' = (triggered \/ out.signalled)
        /\ lastOp' = Op("hello", req, out)
        /\ UNCHANGED <<state, AgencySize, allowSameDataDir, setup>>
        /\ UNCHANGED <<procVars, shutVars, mutex, threads>>

followerHello(f) == f \in Followers /\ helloRetried(FollowerRequest(f))

\* the server handles the hello of some follower
followersHello == \E f \in SlaveIDs : followerHello(f)

NextLive ==
    \/ followersHello
    \/ helloRetried(GetHello)

\* a bootstrap starts on a fresh leader
InitLive == Init /\ state = stateMaster

\* the server handles the hellos it receives for as long as followers send them
SpecLive == InitLive /\ [][NextLive]_vars /\ WF_vars(followersHello)

----------------------------------------------------------------------------
\* Shutdown: the /shutdown handler and the signal handler

\* shutdownHandler with the cancel moved in front of the goodbye
shutdownOutcomeCancelsFirst(req, sendErr) ==
    IF req.Method # "POST"
    THEN [status |-> 405, body |-> NoBody, cancel |-> FALSE, goodbye |-> "none"]
    ELSE IF req.mode = "goodbye" /\ sendErr
    THEN [status |-> 500, body |-> <<"error">>, cancel |-> TRUE, goodbye |-> "failed"]
    ELSE [status |-> 200, body |-> <<"OK">>, cancel |-> TRUE,
          goodbye |-> IF req.mode = "goodbye" THEN "sent" ELSE "none"]

\* shutdownHandler: the response, whether s.cancel is called and what became
\* of the goodbye; sendErr is whether sendMasterGoodbye returns an error
shutdownOutcome(req, sendErr) ==
    IF req.Method # "POST"
    THEN [status |-> 405, body |-> NoBody, cancel |-> FALSE, goodbye |-> "none"]
    ELSE IF req.mode = "goodbye" /\ sendErr
    THEN [status |-> 500, body |-> <<"error">>, cancel |-> FALSE, goodbye |-> "failed"]
    ELSE [status |-> 200, body |-> <<"OK">>, cancel |-> TRUE,
          goodbye |-> IF req.mode = "goodbye" THEN "sent" ELSE "none"]

shutdownHandler(req, sendErr) ==
    LET out == shutdownOutcome(req, sendErr)
    IN  /\ handled < MaxRequests
        /\ exitCode = NotExited
        /\ handled' = handled + 1
        /\ cancelCalls' = IF out.cancel THEN cancelCalls + 1 ELSE cancelCalls
        /\ goodbye' = out.goodbye
        /\ lastOp' = Op("shutdown", req,
                        Outcome(myPeers, out.status, NoLocation, out.body, FALSE, FALSE))
        /\ UNCHANGED <<state, AgencySize, allowSameDataDir, myPeers, setup, triggered>>
        /\ UNCHANGED <<procVars, signalCount, exitCode, concVars>>

\* handleSignal with the cancel in front of the exit
signalOutcomeCancelsAlways(count) ==
    [count |-> count + 1, exit |-> count + 1 > 1, cancel |-> TRUE]

\* handleSignal, one round of its loop: the new signalCount, whether os.Exit(1)
\* is called and whether cancel is called
signalOutcome(count) ==
    [count |-> count + 1, exit |-> count + 1 > 1, cancel |-> ~(count + 1 > 1)]

handleSignal ==
    LET out == signalOutcome(signalCount)
    IN  /\ exitCode = NotExited
        /\ signalCount' = out.count
        /\ exitCode' = IF out.exit THEN <<1>> ELSE exitCode
        /\ cancelCalls' = IF out.cancel THEN cancelCalls + 1 ELSE cancelCalls
        /\ UNCHANGED <<state, AgencySize, allowSameDataDir, myPeers, setup, triggered,
                       lastOp, handled>>
        /\ UNCHANGED <<procVars, goodbye, concVars>>

NextShutdown ==
    \/ \E req \in ShutdownRequests, sendErr \in BOOLEAN : shutdownHandler(req, sendErr)
    \/ handleSignal

SpecShutdown == Init /\ [][NextShutdown]_vars

----------------------------------------------------------------------------
\* Properties

Peers == myPeers.Peers
Leader == state = stateMaster
Min(a, b) == IF a < b THEN a ELSE b
IDs(peers) == [i \in 1..Len(peers) |-> peers[i].ID]
Offsets(peers) == [i \in 1..Len(peers) |-> peers[i].PortOffset]

\* a request has been handled in this step
Handled == handled' # handled
HandledHello == Handled /\ lastOp'.kind = "hello"
HandledGoodbye == Handled /\ lastOp'.kind = "goodbye"
HandledShutdown == Handled /\ lastOp'.kind = "shutdown"
HandledProcess == Handled /\ lastOp'.kind = "process"
HandledLogs == Handled /\ lastOp'.kind = "logs"

\* the request handled last carried a body that parsed
Parsed(op) == op.req.Method = "POST" /\ op.req.Body # BadBody

\* C1: on the leader the port offsets of the registered peers are pairwise
\* distinct and each is a multiple of the stride portOffsetIncrement, whatever
\* hellos and goodbyes were handled.
C1_OffsetsDistinctMultiples ==
    Leader =>
      /\ \A i, j \in 1..Len(Peers) : i # j => Peers[i].PortOffset # Peers[j].PortOffset
      /\ \A i \in 1..Len(Peers) : Peers[i].PortOffset % portOffsetIncrement = 0

\* C1 happens: a hello has just added a peer that took the offset a goodbye
\* had freed, behind a peer with a larger offset, the leader's entry being at 0.
C1_Witness ==
    /\ Leader
    /\ lastOp.kind = "hello" /\ lastOp.mutated
    /\ Len(Peers) = 3
    /\ Peers[1].ID = ID /\ Peers[1].PortOffset = 0
    /\ Peers[3].PortOffset < Peers[2].PortOffset

\* C2: on the leader the ids of the registered peers are pairwise distinct.
C2_IDsDistinct ==
    Leader => \A i, j \in 1..Len(Peers) : i # j => Peers[i].ID # Peers[j].ID

\* C2 happens: a hello carrying the leader's own id has been answered 200
\* while other peers are registered.
C2_Witness ==
    /\ Leader
    /\ lastOp.kind = "hello" /\ Parsed(lastOp) /\ lastOp.status = 200
    /\ lastOp.req.Body.SlaveID = ID
    /\ Len(Peers) >= 2

\* C3 as claimed: on the leader exactly min(len(peers), agencySize) peers have
\* HasAgent, and they are the first that many of the registry.
C3_AgentsAreFirst ==
    Leader =>
      \A i \in 1..Len(Peers) :
         Peers[i].HasAgent <=> i <= Min(Len(Peers), AgencySize)

\* C4 as claimed: when the handler of a request that changed the registry has
\* returned, the setup file holds the registry that is in memory.
C4_SetupEqualsRegistry ==
    lastOp.mutated => Unmarshal(setup) = myPeers

\* C5 as claimed: with the guard on, no two peers of different ids have the same
\* address and directory, and a hello that was accepted carries an address and
\* directory that no peer of another id has.
C5_NoSharedDataDir ==
    (Leader /\ ~allowSameDataDir) =>
      /\ \A i, j \in 1..Len(Peers) :
            Peers[i].ID # Peers[j].ID =>
              ~(Peers[i].Address = Peers[j].Address /\ Peers[i].DataDir = Peers[j].DataDir)
      /\ (lastOp.kind = "hello" /\ Parsed(lastOp) /\ lastOp.status = 200) =>
            ~SameDataDir(Peers, lastOp.req)

\* C6: a POST hello that repeats the request handled just before it leaves the
\* number of peers and every port offset as they were and does not call the
\* running trigger.
C6_HelloIdempotent ==
    [][(HandledHello /\ Leader /\ lastOp'.repeated /\ lastOp'.req.Method = "POST") =>
          /\ Len(myPeers'.Peers) = Len(Peers)
          /\ Offsets(myPeers'.Peers) = Offsets(Peers)
          /\ ~lastOp'.signalled
          /\ triggered' = triggered]_vars

\* C6 happens: the hello that brought the registry to the agency size has been
\* sent again and answered 200.
C6_Witness ==
    /\ Leader
    /\ lastOp.kind = "hello" /\ Parsed(lastOp) /\ lastOp.repeated
    /\ lastOp.status = 200
    /\ lastOp.req.Body.SlaveID = Peers[Len(Peers)].ID
    /\ Len(Peers) = AgencySize /\ AgencySize > 1

\* C7: no request changes the port offset of a peer that stays registered or
\* the order of the peers that stay; a hello removes no peer, a goodbye answered
\* 200 removes the named peer and nothing else, and any other goodbye removes
\* nothing.
C7_OffsetsStable ==
    [][Handled =>
         LET old == Peers
             new == myPeers'.Peers
         IN  /\ \A i \in 1..Len(old), j \in 1..Len(new) :
                   old[i].ID = new[j].ID => old[i].PortOffset = new[j].PortOffset
             /\ \A i1, i2 \in 1..Len(old), j1, j2 \in 1..Len(new) :
                   (i1 < i2 /\ old[i1].ID = new[j1].ID /\ old[i2].ID = new[j2].ID)
                      => j1 < j2
             /\ lastOp'.kind = "hello" =>
                   \A i \in 1..Len(old) : IDFound(new, old[i].ID)
             /\ (lastOp'.kind = "goodbye" /\ lastOp'.status = 200) =>
                   /\ ~IDFound(new, lastOp'.req.Body.SlaveID)
                   /\ Len(new) = Len(old) - 1
                   /\ \A i \in 1..Len(old) :
                         old[i].ID # lastOp'.req.Body.SlaveID =>
                            \E j \in 1..Len(new) : new[j] = old[i]
             /\ (lastOp'.kind = "goodbye" /\ lastOp'.status # 200) => new = old]_vars

\* C7 happens: a goodbye has removed a peer from the middle of the registry and
\* the peers around it are still there with their offsets.
C7_Witness ==
    /\ Leader
    /\ lastOp.kind = "goodbye" /\ lastOp.status = 200
    /\ Len(Peers) = 2
    /\ Peers[1].PortOffset = 0
    /\ Peers[2].PortOffset = 2 * portOffsetIncrement

\* C8: a goodbye that is not a POST is answered 405, one without a SlaveID 400,
\* one naming an id that is not registered 404; none of them changes the
\* registry or writes the setup.
C8_GoodbyeRejected ==
    [][HandledGoodbye =>
         LET req == lastOp'.req
             rejects(status) ==
                 /\ lastOp'.status = status
                 /\ myPeers' = myPeers
                 /\ setup' = setup
                 /\ ~lastOp'.saved
         IN  /\ req.Method # "POST" => rejects(405)
             /\ (Parsed(lastOp') /\ req.Body.SlaveID = "") => rejects(400)
             /\ (Parsed(lastOp') /\ req.Body.SlaveID # ""
                   /\ ~IDFound(Peers, req.Body.SlaveID)) => rejects(404)]_vars

\* C8 happens: a goodbye naming an unknown id has been answered 404 while the
\* registry and the setup file hold different peers.
C8_Witness ==
    /\ lastOp.kind = "goodbye" /\ Parsed(lastOp) /\ lastOp.status = 404
    /\ lastOp.req.Body.SlaveID # ""
    /\ Len(Peers) >= 2
    /\ setup # NoFile
    /\ Unmarshal(setup) # myPeers

\* C9 as claimed: whenever the leader's registry is not empty, its first peer
\* is the leader itself.
C9_LeaderIsFirst ==
    (Leader /\ Len(Peers) > 0) => Peers[1].ID = ID

\* C10: a hello handled by a slave changes neither its registry nor the running
\* trigger; it is answered 307 with the Location of the first peer's /hello when
\* the slave knows peers, and 400 otherwise.
C10_SlaveRedirects ==
    [][(HandledHello /\ state = stateSlave) =>
          /\ myPeers' = myPeers
          /\ ~lastOp'.signalled
          /\ triggered' = triggered
          /\ IF Len(Peers) > 0
             THEN /\ lastOp'.status = 307
                  /\ lastOp'.location =
                       <<"http://", Peers[1].Address, ":", Peers[1].Port, "/hello">>
             ELSE /\ lastOp'.status = 400
                  /\ lastOp'.location = NoLocation]_vars

\* C10 happens: a slave that knows the leader and itself has answered a POST
\* hello with 307.
C10_Witness ==
    /\ state = stateSlave
    /\ lastOp.kind = "hello" /\ lastOp.req.Method = "POST"
    /\ lastOp.status = 307
    /\ Len(Peers) = 2

\* C11: a hello on the leader calls the running trigger exactly when it appends
\* a peer to a registry (the leader's own entry included) that is below the
\* agency size and that the append brings to the agency size; a GET hello, a
\* hello that updates a known id, a rejected hello and a hello that appends
\* at or above the agency size do not call it.
C11_SignalsOnQuorum ==
    [][(HandledHello /\ Leader) =>
         LET before == IF Len(Peers) = 0 THEN 1 ELSE Len(Peers)
             after == Len(myPeers'.Peers)
             op == lastOp'
             known == Parsed(op) /\ IDFound(Peers, op.req.Body.SlaveID)
         IN  /\ op.signalled <=> (before < AgencySize /\ after = AgencySize)
             /\ op.signalled => (Parsed(op) /\ op.status = 200 /\ after = before + 1)
             /\ op.req.Method = "GET" => ~op.signalled
             /\ known => ~op.signalled
             /\ op.status # 200 => ~op.signalled
             /\ before >= AgencySize => ~op.signalled
             /\ triggered' = (triggered \/ op.signalled)]_vars

\* C11 happens: a hello has appended the peer that completes the agency and the
\* running trigger has been called.
C11_Witness ==
    /\ Leader
    /\ lastOp.kind = "hello" /\ lastOp.signalled
    /\ Len(Peers) = AgencySize
    /\ lastOp.req.Body.SlaveID = Peers[Len(Peers)].ID

\* C12 as claimed: on a leader with agency size 1, once the leader has installed
\* itself as the only peer the running trigger has been called.
C12_SingleAgentQuorum ==
    (Leader /\ AgencySize = 1 /\ Len(Peers) = 1 /\ Peers[1].ID = ID
       /\ lastOp.kind = "hello" /\ lastOp.mutated)
      => triggered

\* C19 as claimed: a POST hello with an id that is registered leaves the number
\* of peers, the entry's port offset and its HasAgent as they were, and sets the
\* entry's port and directory to the request's and its address to the
\* request's SlaveAddress or, when that is empty, to the host of the remote
\* address; a stored address is never empty after a hello.
C19_UpdateKeepsOffset ==
    [][(HandledHello /\ Leader /\ Parsed(lastOp') /\ lastOp'.status = 200
          /\ IDFound(SelfInstall(myPeers, lastOp'.req.Host).Peers,
                     lastOp'.req.Body.SlaveID)) =>
         LET req == lastOp'.req
             old == PeerByID(SelfInstall(myPeers, req.Host).Peers, req.Body.SlaveID)
             new == PeerByID(myPeers'.Peers, req.Body.SlaveID)
         IN  /\ Len(myPeers'.Peers) = Len(SelfInstall(myPeers, req.Host).Peers)
             /\ new.PortOffset = old.PortOffset
             /\ new.HasAgent = old.HasAgent
             /\ new.Port = req.Body.SlavePort
             /\ new.DataDir = req.Body.DataDir
             /\ new.Address = (IF req.Body.SlaveAddress = ""
                               THEN req.RemoteAddr[1] ELSE req.Body.SlaveAddress)
             /\ new.Address # ""]_vars

\* C20 as claimed: once the running trigger has been called, no later hello
\* calls it again.
C20_TriggerOnlyOnce ==
    [][(Handled /\ triggered) => ~lastOp'.signalled]_vars

\* C13: a POST /shutdown with mode=goodbye calls cancel only when the goodbye
\* was sent, and answers 500 without cancelling when sending it failed; any
\* other method answers 405, cancels nothing and sends nothing; a POST without
\* mode=goodbye cancels and sends nothing
C13_CancelAfterGoodbye ==
    [][HandledShutdown =>
         LET op == lastOp'
             post == op.req.Method = "POST"
             cancels == cancelCalls' - cancelCalls
         IN  /\ cancels \in {0, 1}
             /\ ~post => (op.status = 405 /\ cancels = 0 /\ goodbye' = "none")
             /\ (post /\ op.req.mode = "goodbye") =>
                  /\ goodbye' \in {"sent", "failed"}
                  /\ cancels = 1 <=> goodbye' = "sent"
                  /\ goodbye' = "sent" => op.status = 200
                  /\ goodbye' = "failed" => op.status = 500
             /\ (post /\ op.req.mode # "goodbye") =>
                  (cancels = 1 /\ goodbye' = "none" /\ op.status = 200)]_vars

\* a shutdown with mode=goodbye whose goodbye failed has been handled after one
\* that cancelled
C13_Witness ==
    /\ lastOp.kind = "shutdown" /\ lastOp.req.Method = "POST"
    /\ lastOp.req.mode = "goodbye" /\ lastOp.status = 500
    /\ goodbye = "failed" /\ cancelCalls = 1

\* C16: the first signal calls cancel and the process keeps running; the second
\* signal exits with code 1 and does not call cancel; every signal handled does
\* one of the two
C16_SecondSignalExits ==
    [][signalCount' # signalCount =>
         /\ exitCode = NotExited
         /\ signalCount' = signalCount + 1
         /\ signalCount = 0 => (cancelCalls' = cancelCalls + 1 /\ exitCode' = NotExited)
         /\ signalCount > 0 => (cancelCalls' = cancelCalls /\ exitCode' = <<1>>)]_vars

\* the second signal has been handled
C16_Witness == signalCount = 2 /\ exitCode = <<1>> /\ cancelCalls > 0

\* C14: the /process response says servers-started exactly when it lists as many
\* servers as 2 plus 1 for an agent of this peer; it lists the set handles, each
\* with the port MasterPort + own offset + role offset, and with no own entry it
\* lists nothing and says not started
C14_ServersStartedIffExpected ==
    [][HandledProcess =>
         LET body == lastOp'.body
             found == IDFound(Peers, ID)
             me == PeerByID(Peers, ID)
             up == {r \in Roles : servers[r]}
             expected == 2 + (IF found /\ me.HasAgent THEN 1 ELSE 0)
             n == Len(body.Servers)
         IN  /\ lastOp'.status = 200
             /\ body.ServersStarted <=> (n = expected)
             /\ ~found => (body.Servers = <<>> /\ ~body.ServersStarted)
             /\ found =>
                  /\ n = Cardinality(up)
                  /\ \A r \in up : \E i \in 1..n : body.Servers[i].Type = r
                  /\ \A i \in 1..n :
                       /\ body.Servers[i].IP = me.Address
                       /\ body.Servers[i].Port =
                            MasterPort + me.PortOffset + roleOffset(body.Servers[i].Type)
                  /\ \A i, j \in 1..n :
                       i # j => body.Servers[i].Port # body.Servers[j].Port]_vars

\* a peer without an agent, at a port offset above 0, has answered /process with
\* its two servers started
C14_Witness ==
    /\ lastOp.kind = "process" /\ lastOp.body.ServersStarted
    /\ Len(lastOp.body.Servers) = 2
    /\ IDFound(Peers, ID) /\ ~PeerByID(Peers, ID).HasAgent
    /\ PeerByID(Peers, ID).PortOffset > 0

\* the log file of a role is there: this starter has an entry and the file exists
LogThere(role) ==
    /\ IDFound(Peers, ID)
    /\ logPath(PeerByID(Peers, ID), role, roleOffset(role)) \in logs

\* C15 as stated: /logs/agent on a peer without an agent answers 404, and any
\* other /logs/{role} whose log file is not there answers 200 with an empty
\* body, with or without an own entry in the registry
C15_AbsentLogIsEmpty ==
    [][HandledLogs =>
         LET op == lastOp'
             noAgent == op.req.role = "agent" /\ ~needsAgent(myPeers)
         IN  /\ noAgent => op.status = 404
             /\ (~noAgent /\ ~LogThere(op.req.role)) =>
                  (op.status = 200 /\ op.body = NoBody)]_vars

\* C15, amended: /logs/agent on a peer without an agent answers 404; any other
\* /logs/{role} answers 412 while this starter has no entry in the registry,
\* and 200 with an empty body once it has one and the log file does not exist
C15_AbsentLogIsEmptyOnceRegistered ==
    [][HandledLogs =>
         LET op == lastOp'
             noAgent == op.req.role = "agent" /\ ~needsAgent(myPeers)
         IN  /\ noAgent => op.status = 404
             /\ (~noAgent /\ ~IDFound(Peers, ID)) =>
                  (op.status = 412 /\ op.body = NoBody)
             /\ (~noAgent /\ IDFound(Peers, ID) /\ ~LogThere(op.req.role)) =>
                  (op.status = 200 /\ op.body = NoBody)]_vars

\* the agent of this peer runs and has written no log, and /logs/agent answered
\* 200 with an empty body
C15_Witness ==
    /\ lastOp.kind = "logs" /\ lastOp.req.role = "agent"
    /\ lastOp.status = 200 /\ lastOp.body = NoBody
    /\ needsAgent(myPeers) /\ servers["agent"] /\ ~LogThere("agent")

\* a helloHandler has written the Port of the peer it updates and has not yet
\* written its DataDir
MidMutation == \E t \in Threads : threads[t].pc \in {"setAddress", "setDataDir"}

\* C17: no /process request is handled while a helloHandler is between two of
\* the assignments of its update of a peer
C17_ReadersExcluded ==
    [][HandledProcess => ~MidMutation]_vars

\* no helloHandler is between its Lock and its Unlock
NoneInBody == \A t \in Threads : threads[t].pc \in {"idle", "lock"}

\* the registry after the hellos of a sequence, each handled alone, in order
RECURSIVE Replay(_)
Replay(seq) ==
    IF seq = <<>> THEN EmptyRegistry
    ELSE helloOutcome(Replay(SubSeq(seq, 1, Len(seq) - 1)), seq[Len(seq)]).reg

\* C18: on the leader, whenever no hello is inside the handler, the registry is
\* the one that handling the hellos one at a time, in the order they took the
\* mutex, leaves: ids are distinct and offsets grow along the registry; and a
\* POST hello answered 200 gets the registry of that moment, with its peer in it
C18_HellosLinearized ==
    [][Leader =>
         /\ NoneInBody' =>
              /\ myPeers' = Replay(order')
              /\ \A i, j \in 1..Len(myPeers'.Peers) :
                   i < j => /\ myPeers'.Peers[i].ID # myPeers'.Peers[j].ID
                            /\ myPeers'.Peers[i].PortOffset < myPeers'.Peers[j].PortOffset
         /\ (HandledHello /\ Parsed(lastOp') /\ lastOp'.status = 200) =>
              /\ Unmarshal(lastOp'.body) = myPeers'
              /\ IDFound(Unmarshal(lastOp'.body).Peers, lastOp'.req.Body.SlaveID)]_vars

\* on the leader, a hello has appended the third peer and is about to answer
\* while the hello of another slave waits for the mutex
C18_Witness ==
    /\ Leader /\ Len(Peers) = 3
    /\ \E t, u \in Threads :
         /\ threads[t].pc = "respond" /\ threads[t].mutated /\ mutex = t
         /\ threads[u].pc = "lock" /\ threads[u].req.Method = "POST"
         /\ threads[u].req.Body.SlaveID # threads[t].req.Body.SlaveID

\* the hello answered last came from a follower of the bootstrap
FromFollower ==
    /\ lastOp.kind = "hello" /\ lastOp.req.Method = "POST"
    /\ lastOp.req.Body.SlaveID \in Followers

\* C21: on a leader with an agency of more than one, with followers that keep
\* sending their hello and no goodbye, the running trigger is signalled in the
\* end, it stays signalled, and while it is, every answer to a follower's hello
\* is a 200 with a registry of at least AgencySize peers
C21_BootstrapCompletes ==
    /\ (Leader /\ AgencySize > 1) => <>triggered
    /\ [][(Leader /\ AgencySize > 1 /\ triggered) => triggered']_vars
    /\ []((Leader /\ AgencySize > 1 /\ triggered /\ FromFollower) =>
            /\ lastOp.status = 200
            /\ Len(Unmarshal(lastOp.body).Peers) >= AgencySize)

\* the leader has signalled the trigger and has answered, with the full
\* registry, a hello that a follower sent again, every follower having sent
\* its hello as often as it does
C21_Witness ==
    /\ Leader /\ AgencySize > 1 /\ triggered
    /\ FromFollower /\ lastOp.repeated /\ ~lastOp.signalled /\ lastOp.status = 200
    /\ Len(Unmarshal(lastOp.body).Peers) = AgencySize
    /\ \A f \in Followers : Count(order, FollowerRequest(f)) = MaxRetries

====
